---------------------------- MODULE Spec2Model ----------------------------
(***************************************************************************)
(* A model of the agent core of sharathh17/chatbot: the bounded            *)
(* conversation memory (memory.py), the tool registry (tools.py), the      *)
(* tool-call parser and the reasoning loop (agent.py), the document store  *)
(* with its term-overlap search (rag.py), the ingestion loop that fills    *)
(* it (ingest.py) and the service's query and tool-call handlers           *)
(* (main.py).                                                              *)
(*                                                                         *)
(* Texts are sequences of one-character strings, so that find, slicing,    *)
(* strip and split are computed on characters as Python computes them.     *)
(***************************************************************************)
EXTENDS Integers, Sequences, FiniteSets, Bags, TLC

VARIABLES
    history,          \* ConversationMemory.history: the deque, oldest first
    max_history,      \* ConversationMemory.max_history (the deque's maxlen)
    use_memory,       \* whether Agent.memory is a ConversationMemory
    appended,         \* history variable: messages appended since the last clear
    state,            \* Agent.state
    tools,            \* ToolRegistry.tools: the dict, in insertion order
    pc,               \* where the call in progress stands
    query,            \* think's argument
    max_iterations,   \* think's argument
    response,         \* think's local `response` / the parser's argument
    tool_section,     \* _parse_tool_call's local `tool_section`
    tool_call,        \* think's local `tool_call` / the parser's result
    iter,             \* iterations of think's for loop begun in this call
    execs,            \* times Agent.execute_tool ran its body in this call
    tool_result,      \* think's local `tool_result`
    calls,            \* history variable: think calls begun
    documents,        \* VectorStore.documents
    search_query,     \* search's argument `query`
    top_k,            \* search's argument `top_k`
    results,          \* what search returned
    registered,       \* history variable: the tools given to register, in order
    last_call,        \* the call a caller made last, and what came of it
    pending,          \* POST /query requests whose handler has not begun
    ingester,         \* ingest_file in progress: its position and locals
    searcher          \* a search in progress: its position and locals

memVars      == <<history, max_history, use_memory, appended>>
registryVars == <<tools, registered>>
agentVars    == <<state, registryVars>>
callVars     == <<pc, query, max_iterations, response, tool_section, tool_call,
                  iter, execs, tool_result, calls>>
storeVars    == <<documents, search_query, top_k, results>>
callerVars   == <<last_call, pending>>
taskVars     == <<ingester, searcher>>
vars         == <<memVars, agentVars, callVars, storeVars, callerVars,
                  taskVars>>

---------------------------------------------------------------------------
(* Bounds of the model.                                                    *)

MaxBody == 5
MaxPieces == 3
MaxCap == 2
MaxAppends == 4
MaxCalls == 2
MaxIter == 2
MaxDocs == 3

---------------------------------------------------------------------------
(* Python's str operations on sequences of characters.                     *)

Whitespace == {" ", "\n", "\t", "\r"}

Min(a, b) == IF a < b THEN a ELSE b
Max(a, b) == IF a > b THEN a ELSE b

\* `m` occurs in `s` at the 0-based offset i.
OccursAt(s, m, i) ==
    /\ i >= 0
    /\ i + Len(m) <= Len(s)
    /\ \A j \in 1..Len(m) : s[i + j] = m[j]

\* `m in s`
Contains(s, m) == \E i \in 0..Len(s) : OccursAt(s, m, i)

\* s.find(m): the lowest 0-based offset of m in s, or -1.
Find(s, m) ==
    LET hits == {i \in 0..(Len(s) - Len(m)) : OccursAt(s, m, i)}
    IN  IF hits = {} THEN -1
        ELSE CHOOSE i \in hits : \A j \in hits : i <= j

\* A slice bound as Python normalises it: a negative bound counts from the
\* end, and the result is clamped to 0..len.
SliceIndex(n, len) ==
    IF n < 0 THEN Max(n + len, 0) ELSE Min(n, len)

\* s[start:end]
Slice(s, start, end) ==
    LET lo == SliceIndex(start, Len(s))
        hi == SliceIndex(end, Len(s))
    IN  IF lo < hi THEN SubSeq(s, lo + 1, hi) ELSE <<>>

RECURSIVE LStrip(_)
LStrip(s) ==
    IF s # <<>> /\ Head(s) \in Whitespace THEN LStrip(Tail(s)) ELSE s

RECURSIVE RStrip(_)
RStrip(s) ==
    IF s # <<>> /\ s[Len(s)] \in Whitespace
    THEN RStrip(SubSeq(s, 1, Len(s) - 1))
    ELSE s

\* s.strip()
Strip(s) == RStrip(LStrip(s))

\* s.rsplit(sep, 1): the split at the last sep instead of the first.
SplitOnceLast(s, sep) ==
    LET hits == {i \in 1..Len(s) : s[i] = sep}
        last == CHOOSE i \in hits : \A j \in hits : i >= j
    IN  IF hits = {} THEN <<s>>
        ELSE <<SubSeq(s, 1, last - 1), SubSeq(s, last + 1, Len(s))>>

\* s.split(sep, 1) for a one-character sep: one part, or the text before the
\* first sep and the text after it.
SplitOnce(s, sep) ==
    LET i == Find(s, <<sep>>)
    IN  IF i = -1 THEN <<s>>
        ELSE <<SubSeq(s, 1, i), SubSeq(s, i + 2, Len(s))>>

RECURSIVE SplitAll(_, _)
\* s.split(sep) for a one-character sep: always at least one part.
SplitAll(s, sep) ==
    LET i == Find(s, <<sep>>)
    IN  IF i = -1 THEN <<s>>
        ELSE <<SubSeq(s, 1, i)>> \o SplitAll(SubSeq(s, i + 2, Len(s)), sep)

---------------------------------------------------------------------------
(* memory.py: ConversationMemory.  A message is held as its role and its   *)
(* content; its timestamp is the wall clock's and its metadata is empty in *)
(* every call the agent makes.                                             *)

DefaultMaxHistory == 10

Message(role, content) == [role |-> role, content |-> content]

\* A deque without maxlen, which a deque of this program never is.
DequeAppendUnbounded(d, maxlen, x) == Append(d, x)

\* deque(maxlen=maxlen).append(x): a full deque drops its oldest entry, and
\* a deque of maxlen 0 keeps nothing.
DequeAppend(d, maxlen, x) ==
    IF maxlen = 0 THEN d
    ELSE IF Len(d) >= maxlen THEN Append(Tail(d), x)
    ELSE Append(d, x)

\* ConversationMemory.add_message: the history it leaves.
add_message(h, role, content) ==
    DequeAppend(h, max_history, Message(role, content))

\* ConversationMemory.get_history() with num_messages omitted.
get_history == history

\* ConversationMemory.get_history(num_messages) with num_messages given:
\* list(self.history)[-num_messages:]
get_history_n(num_messages) == Slice(history, -num_messages, Len(history))

UserUpper == <<"U", "S", "E", "R">>
AssistantUpper == <<"A", "S", "S", "I", "S", "T", "A", "N", "T">>

\* msg['role'].upper() for the two roles the agent records.
RoleUpper(role) == IF role = "user" THEN UserUpper ELSE AssistantUpper

\* f"{msg['role'].upper()}: {msg['content']}"
ContextLine(msg) == RoleUpper(msg.role) \o <<":", " ">> \o msg.content

RECURSIVE JoinLines(_)
\* "\n".join(lines)
JoinLines(lines) ==
    IF lines = <<>> THEN <<>>
    ELSE IF Len(lines) = 1 THEN lines[1]
    ELSE lines[1] \o <<"\n">> \o JoinLines(Tail(lines))

\* ConversationMemory.get_context
get_context == JoinLines([i \in 1..Len(history) |-> ContextLine(history[i])])

\* A clear that leaves the log as it is.
clearNothing == history

\* ConversationMemory.clear: the history it leaves.
clear == <<>>

---------------------------------------------------------------------------
(* agent.py: the tool-call parser.                                         *)

OpenMarker ==
    <<"[", "T", "O", "O", "L", "_", "C", "A", "L", "L", "]">>
CloseMarker ==
    <<"[", "/", "T", "O", "O", "L", "_", "C", "A", "L", "L", "]">>

\* Python's None, as the parser returns it.
None == [none |-> TRUE]

\* d[k] = v on a dict held as a function.
DictPut(d, k, v) ==
    [x \in (DOMAIN d) \cup {k} |-> IF x = k THEN v ELSE d[x]]

\* `k, v = param.split("=", 1)` raises unless the split has two parts.
UnpackRaises(param) == Len(SplitOnce(param, "=")) # 2

RECURSIVE ParamsFrom(_, _, _)
\* The for loop over param_str.split(","), from piece i on.
ParamsFrom(pieces, i, params) ==
    IF i > Len(pieces) THEN params
    ELSE LET param == pieces[i]
         IN  IF Contains(param, <<"=">>)
             THEN LET kv == SplitOnce(param, "=")
                  IN  ParamsFrom(pieces, i + 1,
                                 DictPut(params, Strip(kv[1]), Strip(kv[2])))
             ELSE ParamsFrom(pieces, i + 1, params)

\* response[start:end].strip(), with start and end as the parser finds them.
ToolSection(text) ==
    LET start == Find(text, OpenMarker) + Len(OpenMarker)
        end   == Find(text, CloseMarker)
    IN  Strip(Slice(text, start, end))

\* The body of the parser's try block: whether it raised, and its value.
ParseBody(text) ==
    LET section   == ToolSection(text)
        parts     == SplitOnce(section, ":")
        tool_name == Strip(parts[1])
        pieces    == IF Len(parts) > 1
                     THEN SplitAll(Strip(parts[2]), ",")
                     ELSE <<>>
        raised    == \E i \in 1..Len(pieces) :
                        /\ Contains(pieces[i], <<"=">>)
                        /\ UnpackRaises(pieces[i])
    IN  [raised |-> raised,
         value  |-> IF raised THEN None
                    ELSE [tool |-> tool_name,
                          params |-> ParamsFrom(pieces, 1, <<>>)]]

\* A parser without its early return.
MarkerAbsentNever(text) == FALSE

\* The parser's early return.
MarkerAbsent(text) == ~Contains(text, OpenMarker)

\* Agent._parse_tool_call
parse_tool_call(text) ==
    IF MarkerAbsent(text) THEN None
    ELSE IF ParseBody(text).raised THEN None
    ELSE ParseBody(text).value

---------------------------------------------------------------------------
(* The texts the parser is checked on.                                     *)

RECURSIVE Concat(_)
Concat(ss) == IF ss = <<>> THEN <<>> ELSE Head(ss) \o Concat(Tail(ss))

SeqsUpTo(S, n) == UNION {[1..k -> S] : k \in 0..n}

BodyAlphabet == {":", ",", "=", " ", "a"}
Bodies == SeqsUpTo(BodyAlphabet, MaxBody)

Pieces == {OpenMarker, CloseMarker, <<"a">>, <<":">>, <<" ">>}
PieceTexts == {Concat(ps) : ps \in SeqsUpTo(Pieces, MaxPieces)}

SpecExampleBody ==
    <<" ", "s", "e", "a", "r", "c", "h", ":", " ", "q", "u", "e",
       "r", "y", "=", "h", "e", "l", "l", "o", " ", "w", "o", "r",
       "l", "d", " ">>
SpecExample == OpenMarker \o SpecExampleBody \o CloseMarker

LongBodies ==
    { <<"a", ":", "a", "=", "a", "=", "a">>,
      <<" ", "a", " ", ":", " ", "a", " ", "=", " ", "a", " ", ",", "a">>,
      <<"a", ":", "a", "=", "a", ",", "a", "=", ":">>,
      <<"a", ":", "a", ":", "a", "=", "a", ",", "=">> }

Texts ==
    {OpenMarker \o b \o CloseMarker : b \in Bodies \cup LongBodies}
        \cup PieceTexts
        \cup {SpecExample, OpenMarker \o SpecExampleBody}

---------------------------------------------------------------------------
(* The parser applied to a text.                                           *)

\* The fields and locals a specification leaves at their initial values.
InitMemory ==
    /\ history = <<>>
    /\ appended = <<>>

InitAgent ==
    /\ state = "idle"
    /\ tools = <<>>
    /\ registered = <<>>

InitCall ==
    /\ query = <<>>
    /\ max_iterations = 0
    /\ response = <<>>
    /\ tool_section = <<>>
    /\ tool_call = None
    /\ iter = 0
    /\ execs = 0
    /\ tool_result = <<>>
    /\ calls = 0

InitStore ==
    /\ documents = <<>>
    /\ search_query = <<>>
    /\ top_k = 0
    /\ results = <<>>

\* No call has been made from outside and no request waits.
NoCall == [op |-> "none", args |-> <<>>, value |-> None]

InitCaller ==
    /\ last_call = NoCall
    /\ pending = EmptyBag

\* No ingestion and no search is in progress.
IdleIngester == [pc |-> "idle", documents |-> <<>>, doc |-> None]
IdleSearcher == [pc |-> "idle", query_terms |-> {}, top_k |-> 0, i |-> 0,
                 results |-> <<>>]

InitTask ==
    /\ ingester = IdleIngester
    /\ searcher = IdleSearcher

InitParse ==
    /\ InitMemory /\ max_history = DefaultMaxHistory /\ use_memory = TRUE
    /\ InitAgent
    /\ InitStore
    /\ InitCaller
    /\ InitTask
    /\ pc = "text"
    /\ response \in Texts
    /\ query = <<>>
    /\ max_iterations = 0
    /\ tool_section = <<>>
    /\ tool_call = None
    /\ iter = 0
    /\ execs = 0
    /\ tool_result = <<>>
    /\ calls = 0

ParseText ==
    /\ pc = "text"
    /\ tool_call' = parse_tool_call(response)
    /\ tool_section' = IF MarkerAbsent(response) THEN <<>>
                       ELSE ToolSection(response)
    /\ pc' = "parsed"
    /\ UNCHANGED <<memVars, agentVars, storeVars, callerVars, taskVars, query,
                   max_iterations, response, iter, execs, tool_result, calls>>

NextParse == ParseText

SpecParse == InitParse /\ [][NextParse]_vars

---------------------------------------------------------------------------
(* What the tool-call grammar of the specification asks of the parser,     *)
(* stated on positions in the text.                                        *)

\* The least 0-based offset at which m occurs in s (m occurs in s).
FirstAt(s, m) ==
    CHOOSE i \in 0..Len(s) :
        OccursAt(s, m, i) /\ \A j \in 0..(i - 1) : ~OccursAt(s, m, j)

\* s without its leading and trailing whitespace.
Trim(s) ==
    LET solid == {i \in 1..Len(s) : s[i] \notin Whitespace}
    IN  IF solid = {} THEN <<>>
        ELSE SubSeq(s, CHOOSE i \in solid : \A j \in solid : i <= j,
                       CHOOSE i \in solid : \A j \in solid : i >= j)

\* The least index of character c in s, or Len(s) + 1.
FirstIndex(s, c) ==
    IF \E i \in 1..Len(s) : s[i] = c
    THEN CHOOSE i \in 1..Len(s) : s[i] = c /\ \A j \in 1..(i - 1) : s[j] # c
    ELSE Len(s) + 1

\* Both markers occur, the first closing one after the first opening one.
BothInOrder(text) ==
    /\ Contains(text, OpenMarker)
    /\ Contains(text, CloseMarker)
    /\ FirstAt(text, OpenMarker) + Len(OpenMarker) <= FirstAt(text, CloseMarker)

\* The text strictly between the first opening and the first closing marker.
Enclosed(text) ==
    SubSeq(text, FirstAt(text, OpenMarker) + Len(OpenMarker) + 1,
                 FirstAt(text, CloseMarker))

\* The text from the end of the first opening marker to the end of the text.
AfterOpen(text) ==
    SubSeq(text, FirstAt(text, OpenMarker) + Len(OpenMarker) + 1, Len(text))

\* The tool name of an enclosed text: what precedes its first ':', trimmed.
GrammarName(enc) == Trim(SubSeq(enc, 1, FirstIndex(enc, ":") - 1))

\* The comma-separated pieces of `rest` that hold a '=', each as
\* <<position, key, value>>, split on its first '=' and trimmed.
GrammarPairs(rest) ==
    LET starts == {1} \cup {i + 1 : i \in {j \in 1..Len(rest) : rest[j] = ","}}
        piece(lo) == LET tail == SubSeq(rest, lo, Len(rest))
                     IN  SubSeq(tail, 1, FirstIndex(tail, ",") - 1)
    IN  { <<lo,
            Trim(SubSeq(piece(lo), 1, FirstIndex(piece(lo), "=") - 1)),
            Trim(SubSeq(piece(lo), FirstIndex(piece(lo), "=") + 1,
                        Len(piece(lo))))>> :
          lo \in {l \in starts : FirstIndex(piece(l), "=") <= Len(piece(l))} }

\* The parameter mapping of an enclosed text: one entry per key, holding
\* the value of the last piece with that key.
GrammarParams(enc) ==
    LET rest  == SubSeq(enc, FirstIndex(enc, ":") + 1, Len(enc))
        pairs == GrammarPairs(rest)
    IN  [k \in {p[2] : p \in pairs} |->
            LET last == CHOOSE p \in pairs :
                            p[2] = k /\ \A q \in pairs : q[2] = k => q[1] <= p[1]
            IN  last[3]]

SearchName == <<"s", "e", "a", "r", "c", "h">>
QueryKey   == <<"q", "u", "e", "r", "y">>
HelloWorld == <<"h", "e", "l", "l", "o", " ", "w", "o", "r", "l", "d">>

\* C7: for a text holding both markers in order, the parser returns the
\* trimmed text before the first ':' of the enclosed text as the tool name,
\* and the mapping built from the rest split on ',' and on each piece's
\* first '=', keys and values trimmed, pieces without '=' dropped; the
\* example of the specification yields search with {query: "hello world"}.
C7_ParserGrammar ==
    (pc = "parsed" /\ BothInOrder(response)) =>
        /\ tool_call # None
        /\ tool_call.tool = GrammarName(Enclosed(response))
        /\ tool_call.params = GrammarParams(Enclosed(response))
        /\ response = SpecExample =>
              tool_call = [tool |-> SearchName, params |-> (QueryKey :> HelloWorld)]

C7_Witness ==
    /\ pc = "parsed"
    /\ response = SpecExample
    /\ tool_call # None
    /\ tool_call.tool = SearchName
    /\ DOMAIN tool_call.params = {QueryKey}

\* C8: the parser extracts the text strictly between the first opening and
\* the first closing marker, and everything after the opening marker when
\* no closing marker occurs, losing no character.
C8_ExtractsWholeSection ==
    (pc = "parsed" /\ Contains(response, OpenMarker)) =>
        tool_section =
            IF Contains(response, CloseMarker)
            THEN IF BothInOrder(response) THEN Trim(Enclosed(response)) ELSE <<>>
            ELSE Trim(AfterOpen(response))


---------------------------------------------------------------------------
(* ConversationMemory on its own: any max_history, any appends and clears. *)

Roles == {"user", "assistant"}
Contents == {<<"a">>, <<"b">>}

InitMem ==
    /\ InitMemory
    /\ max_history \in 0..MaxCap
    /\ use_memory = TRUE
    /\ InitAgent
    /\ InitCall
    /\ InitStore
    /\ InitCaller
    /\ InitTask
    /\ pc = "memory"

MemAdd(role, content) ==
    /\ pc = "memory"
    /\ Len(appended) < MaxAppends
    /\ history' = add_message(history, role, content)
    /\ appended' = Append(appended, Message(role, content))
    /\ last_call' = NoCall
    /\ UNCHANGED <<max_history, use_memory, agentVars, callVars, storeVars,
                   pending, taskVars>>

MemClear ==
    /\ pc = "memory"
    /\ history' = clear
    /\ appended' = <<>>
    /\ last_call' = [op |-> "clear", args |-> <<>>, value |-> None,
                     before |-> Len(history)]
    /\ UNCHANGED <<max_history, use_memory, agentVars, callVars, storeVars,
                   pending, taskVars>>

\* The memory's readers change nothing of the memory.
MemRead(op, args, value) ==
    /\ pc = "memory"
    /\ last_call' = [op |-> op, args |-> args, value |-> value]
    /\ UNCHANGED <<memVars, agentVars, callVars, storeVars, pending, taskVars>>

GetHistoryAll == MemRead("get_history", <<>>, get_history)

GetHistory(num_messages) ==
    MemRead("get_history", <<num_messages>>, get_history_n(num_messages))

GetContext == MemRead("get_context", <<>>, get_context)

\* The numbers of messages asked for.
NumMessages == 0..(MaxAppends + 1)

NextMem ==
    \/ \E role \in Roles, content \in Contents : MemAdd(role, content)
    \/ MemClear
    \/ GetHistoryAll
    \/ \E num_messages \in NumMessages : GetHistory(num_messages)
    \/ GetContext

SpecMem == InitMem /\ [][NextMem]_vars

\* The last n entries of s.
LastN(s, n) == SubSeq(s, Len(s) - n + 1, Len(s))

\* C1: the log never holds more than max_history messages, and get_history()
\* returns the last min(appends since the last clear, max_history) appended
\* messages in the order they were appended.
C1_BoundedMemory ==
    /\ Len(history) <= max_history
    /\ get_history = LastN(appended, Min(Len(appended), max_history))

C1_Witness ==
    /\ max_history > 0
    /\ Len(appended) > max_history
    /\ Len(history) = max_history
    /\ history[1] # appended[1]


\* C15: get_history(n) with n >= 0 returns the min(n, length) most recent
\* messages of the log, oldest first, so nothing for n = 0; with n omitted
\* it returns the whole log; the log is as it was.
C15_GetHistoryRecent ==
    last_call.op = "get_history" =>
        /\ last_call.args = <<>> => last_call.value = history
        /\ last_call.args # <<>> =>
              last_call.value =
                  LastN(history, Min(last_call.args[1], Len(history)))
        /\ history = LastN(appended, Min(Len(appended), max_history))

\* C16: clear leaves the log empty, whatever it held, and so does a clear
\* that follows a clear; get_context on the empty log is the empty text;
\* no operation changes max_history, and the log stays within it.
C16_ClearIdempotent ==
    [][/\ max_history' = max_history
       /\ Len(history') <= max_history'
       /\ last_call'.op = "clear" => history' = <<>>
       /\ (last_call.op = "clear" /\ last_call'.op = "clear") =>
              (history' = <<>> /\ last_call'.before = 0)
       /\ (last_call'.op = "get_context" /\ history' = <<>>) =>
              last_call'.value = <<>>]_vars

C16_Witness ==
    /\ last_call.op = "clear"
    /\ last_call.before = max_history
    /\ max_history > 0
    /\ history = <<>>

---------------------------------------------------------------------------
(* tools.py: Tool and ToolRegistry.  The registry is the dict in its       *)
(* insertion order; a tool is its name and the function behind it.         *)

CalculatorName ==
    <<"c", "a", "l", "c", "u", "l", "a", "t", "o", "r">>
ExpressionKey ==
    <<"e", "x", "p", "r", "e", "s", "s", "i", "o", "n">>
ToolNameKey ==
    <<"t", "o", "o", "l", "_", "n", "a", "m", "e">>
NameKey ==
    <<"n", "a", "m", "e">>
SelfKey ==
    <<"s", "e", "l", "f">>

\* main.py's two tools, as lifespan registers them.
search_tool == [name |-> SearchName, func |-> "search_web"]
calc_tool   == [name |-> CalculatorName, func |-> "calculator"]

\* name in self.tools
HasTool(reg, name) == \E i \in 1..Len(reg) : reg[i].name = name

\* self.tools[name]
ToolAt(reg, name) == reg[CHOOSE i \in 1..Len(reg) : reg[i].name = name]

\* A registration that moves a name it already holds to the end, as
\* deleting the key before setting it would.
registerAtEnd(reg, tool) ==
    LET kept == {i \in 1..Len(reg) : reg[i].name # tool.name}
        nth(k) == CHOOSE i \in kept : Cardinality({j \in kept : j <= i}) = k
    IN  Append([k \in 1..Cardinality(kept) |-> reg[nth(k)]], tool)

\* ToolRegistry.register: self.tools[tool.name] = tool.  A dict keeps the
\* place of a key it already holds.
register(reg, tool) ==
    IF HasTool(reg, tool.name)
    THEN [i \in 1..Len(reg) |-> IF reg[i].name = tool.name THEN tool ELSE reg[i]]
    ELSE Append(reg, tool)

\* What a call yields: the text of the value it returns, or str(e) of the
\* exception it raises.
Returns(text) == [raised |-> FALSE, text |-> text]
Raises(text)  == [raised |-> TRUE, text |-> text]

\* str(e) of the TypeError the interpreter raises when keyword arguments do
\* not fit a signature; its wording is the interpreter's.
TypeErrorText ==
    <<"T", "y", "p", "e", "E", "r", "r", "o", "r">>

SearchResultsPrefix ==
    <<"S", "e", "a", "r", "c", "h", " ", "r", "e", "s", "u", "l",
      "t", "s", " ", "f", "o", "r", " ", "'">>
SearchResultsSuffix ==
    <<"'", ":", " ", "[", "m", "o", "c", "k", " ", "r", "e", "s",
      "u", "l", "t", "s", "]">>
CalculatorText ==
    <<"c", "a", "l", "c", "u", "l", "a", "t", "e", "d">>

ToolQuote ==
    <<"T", "o", "o", "l", " ", "'">>
NotFoundSuffix ==
    <<"'", " ", "n", "o", "t", " ", "f", "o", "u", "n", "d">>

\* main.py's search_web(query) and calculator(expression), called as
\* func(**kwargs): keyword arguments other than the one parameter do not
\* bind.  eval is taken to return or to raise an Exception, which
\* calculator catches; the text calculator returns stands here for whatever
\* eval computed.
CallFunc(func, kwargs) ==
    IF func = "search_web"
    THEN IF DOMAIN kwargs = {QueryKey}
         THEN Returns(SearchResultsPrefix \o kwargs[QueryKey] \o SearchResultsSuffix)
         ELSE Raises(TypeErrorText)
    ELSE IF DOMAIN kwargs = {ExpressionKey}
         THEN Returns(CalculatorText)
         ELSE Raises(TypeErrorText)

\* ToolRegistry.get_tool's failure.
NotFound(name) == Raises(ToolQuote \o name \o NotFoundSuffix)

\* ToolRegistry.execute_tool(name, **kwargs): a keyword named like one of
\* its own parameters does not bind; an unknown name is get_tool's
\* ValueError; what the function raises is passed on.
RegistryExecute(reg, name, kwargs) ==
    IF (DOMAIN kwargs) \cap {SelfKey, NameKey} # {} THEN Raises(TypeErrorText)
    ELSE IF ~HasTool(reg, name) THEN NotFound(name)
    ELSE CallFunc(ToolAt(reg, name).func, kwargs)

\* ToolRegistry.get_tool: the tool, or its ValueError.
get_tool(reg, name) ==
    IF ~HasTool(reg, name) THEN NotFound(name)
    ELSE [raised |-> FALSE, tool |-> ToolAt(reg, name)]

\* ToolRegistry.list_tools: the tools' descriptions in the dict's order; of a
\* description the name is kept.
list_tools(reg) == [i \in 1..Len(reg) |-> [name |-> reg[i].name]]

---------------------------------------------------------------------------
(* agent.py: Agent.execute_tool and the reasoning loop.                    *)

ErrorPrefix ==
    <<"T", "o", "o", "l", " ", "e", "x", "e", "c", "u", "t", "i",
      "o", "n", " ", "e", "r", "r", "o", "r", ":", " ">>

ResponsePrefix ==
    <<"B", "a", "s", "e", "d", " ", "o", "n", " ", "t", "h", "e",
      " ", "c", "o", "n", "t", "e", "x", "t", ",", " ", "h", "e",
      "r", "e", "'", "s", " ", "m", "y", " ", "r", "e", "s", "p",
      "o", "n", "s", "e", " ", "t", "o", " ", "'">>
ResponseSuffix ==
    <<"'", ":", "\n", "\n", "I", " ", "n", "e", "e", "d", " ", "m",
      "o", "r", "e", " ", "c", "o", "n", "t", "e", "x", "t", " ",
      "t", "o", " ", "p", "r", "o", "v", "i", "d", "e", " ", "a",
      " ", "c", "o", "m", "p", "r", "e", "h", "e", "n", "s", "i",
      "v", "e", " ", "a", "n", "s", "w", "e", "r", ".", " ", "P",
      "l", "e", "a", "s", "e", " ", "e", "n", "s", "u", "r", "e",
      " ", "t", "h", "e", " ", "L", "L", "M", " ", "i", "s", " ",
      "p", "r", "o", "p", "e", "r", "l", "y", " ", "c", "o", "n",
      "f", "i", "g", "u", "r", "e", "d", ".">>

\* Agent._generate_response: the placeholder text around the query.
generate_response(context, q) == ResponsePrefix \o q \o ResponseSuffix

\* Agent._continue_reasoning: the placeholder returns `current`.
continue_reasoning(current, result) == current

\* Calling self.execute_tool(tool_call["tool"], **tool_call["params"]) in
\* think: a parameter named like one of execute_tool's own parameters makes
\* the call itself raise TypeError, before execute_tool's try is entered.
CallClashes(call) == (DOMAIN call.params) \cap {SelfKey, ToolNameKey} # {}

\* An execute_tool that returns str(e) alone.
ExecuteOutcomeBare(reg, name, kwargs) ==
    LET r == RegistryExecute(reg, name, kwargs)
    IN  IF r.raised
        THEN [state |-> "error", text |-> r.text]
        ELSE [state |-> "idle", text |-> r.text]

\* Agent.execute_tool from `result = ...` on: the state it leaves and the
\* text it returns.
ExecuteOutcome(reg, name, kwargs) ==
    LET r == RegistryExecute(reg, name, kwargs)
    IN  IF r.raised
        THEN [state |-> "error", text |-> ErrorPrefix \o r.text]
        ELSE [state |-> "idle", text |-> r.text]

---------------------------------------------------------------------------
(* think, one step per assignment to Agent.state.  pc is "ready" before    *)
(* the first call, "returned" after a call that returned and "raised"      *)
(* after one that let an exception out.                                    *)

CallEnded == pc \in {"returned", "raised"}

\* Lines 134-147: the state is set, the query is recorded, the context is
\* prepared (it reads the memory, the store and the registry and changes
\* none) and the response is generated.
ThinkEnter(q, n) ==
    /\ pc \in {"ready", "returned", "raised"}
    /\ calls < MaxCalls
    /\ calls' = calls + 1
    /\ query' = q
    /\ max_iterations' = n
    /\ state' = "thinking"
    /\ history' = IF use_memory THEN add_message(history, "user", q) ELSE history
    /\ appended' = IF use_memory THEN Append(appended, Message("user", q))
                   ELSE appended
    /\ response' = generate_response(<<>>, q)
    /\ tool_section' = <<>>
    /\ tool_call' = None
    /\ tool_result' = <<>>
    /\ iter' = 0
    /\ execs' = 0
    /\ pc' = "loop"
    /\ UNCHANGED <<max_history, use_memory, registryVars, storeVars,
                   last_call, taskVars>>

\* think called by a caller that holds the agent.
ThinkStart(q, n) ==
    /\ ThinkEnter(q, n)
    /\ UNCHANGED pending

\* Lines 150-152 and 159-160: the next iteration of the for loop, if there
\* is one, parses the response and breaks when there is no call.
LoopParse ==
    /\ pc = "loop"
    /\ iter < max_iterations
    /\ iter' = iter + 1
    /\ tool_call' = parse_tool_call(response)
    /\ tool_section' = IF MarkerAbsent(response) THEN tool_section
                       ELSE ToolSection(response)
    /\ pc' = IF parse_tool_call(response) = None THEN "finish" ELSE "call"
    /\ UNCHANGED <<memVars, agentVars, storeVars, callerVars, taskVars, query,
                   max_iterations, response, execs, tool_result, calls>>

\* The for loop has run max_iterations times.
LoopExhausted ==
    /\ pc = "loop"
    /\ iter >= max_iterations
    /\ pc' = "finish"
    /\ UNCHANGED <<memVars, agentVars, storeVars, callerVars, taskVars, query,
                   max_iterations, response, tool_section, tool_call, iter,
                   execs, tool_result, calls>>

\* Lines 153-156 and 123-124: the call of execute_tool either fails to
\* bind its arguments, and the TypeError leaves think, or enters the try
\* and sets the state.
CallTool ==
    /\ pc = "call"
    /\ IF CallClashes(tool_call)
       THEN /\ pc' = "raised"
            /\ UNCHANGED <<state, execs>>
       ELSE /\ pc' = "executing"
            /\ state' = "executing"
            /\ execs' = execs + 1
    /\ UNCHANGED <<memVars, registryVars, storeVars, callerVars, taskVars, query,
                   max_iterations, response, tool_section, tool_call, iter,
                   tool_result, calls>>

\* Lines 125-130 and 158: the registry runs the tool, execute_tool sets the
\* state and returns a text, and the loop continues with the response
\* _continue_reasoning returns.
ToolDone ==
    /\ pc = "executing"
    /\ LET out == ExecuteOutcome(tools, tool_call.tool, tool_call.params)
       IN  /\ state' = out.state
           /\ tool_result' = out.text
           /\ response' = continue_reasoning(response, out.text)
    /\ pc' = "loop"
    /\ UNCHANGED <<memVars, registryVars, storeVars, callerVars, taskVars, query,
                   max_iterations, tool_section, tool_call, iter, execs, calls>>

\* think ending in idle instead of complete.
ThinkFinishIdle ==
    /\ pc = "finish"
    /\ history' = IF use_memory THEN add_message(history, "assistant", response)
                  ELSE history
    /\ appended' = IF use_memory
                   THEN Append(appended, Message("assistant", response))
                   ELSE appended
    /\ state' = "idle"
    /\ pc' = "returned"
    /\ UNCHANGED <<max_history, use_memory, registryVars, storeVars, callerVars,
                   taskVars, query, max_iterations, response, tool_section,
                   tool_call, iter, execs, tool_result, calls>>

\* Lines 162-167: the response is recorded, the state is set and think
\* returns.
ThinkFinish ==
    /\ pc = "finish"
    /\ history' = IF use_memory THEN add_message(history, "assistant", response)
                  ELSE history
    /\ appended' = IF use_memory
                   THEN Append(appended, Message("assistant", response))
                   ELSE appended
    /\ state' = "complete"
    /\ pc' = "returned"
    /\ UNCHANGED <<max_history, use_memory, registryVars, storeVars, callerVars,
                   taskVars, query, max_iterations, response, tool_section,
                   tool_call, iter, execs, tool_result, calls>>

\* The queries think is called with: plain text, a call of search that
\* succeeds, one whose keyword search_web does not take, a tool that is not
\* registered, a parameter named tool_name, a call with no closing marker,
\* and a closing marker before the opening one.
PlainQuery == <<"h", "i">>
SearchCall(key, closed) ==
    OpenMarker \o <<" ">> \o SearchName \o <<":", " ">> \o key \o <<"=", "a">>
        \o (IF closed THEN <<" ">> \o CloseMarker ELSE <<>>)
UnknownToolQuery == OpenMarker \o <<" ", "a", ":", " ">> \o CloseMarker
ReversedQuery == CloseMarker \o OpenMarker

ThinkQueries ==
    { PlainQuery,
      SearchCall(QueryKey, TRUE),
      SearchCall(<<"a">>, TRUE),
      UnknownToolQuery,
      SearchCall(ToolNameKey, TRUE),
      SearchCall(QueryKey, FALSE),
      ReversedQuery }

\* The agent as main.py's lifespan leaves it: idle, its memory empty, search
\* and calculator registered.  Any capacity of the memory is considered.
InitThink ==
    /\ InitMemory
    /\ use_memory \in BOOLEAN
    /\ max_history \in IF use_memory THEN (0..MaxCap) \cup {DefaultMaxHistory}
                       ELSE {DefaultMaxHistory}
    /\ state = "idle"
    /\ tools = register(register(<<>>, search_tool), calc_tool)
    /\ registered = <<search_tool, calc_tool>>
    /\ InitCall
    /\ InitStore
    /\ InitCaller
    /\ InitTask
    /\ pc = "ready"

NextThink ==
    \/ \E q \in ThinkQueries, n \in 0..MaxIter : ThinkStart(q, n)
    \/ LoopParse
    \/ LoopExhausted
    \/ CallTool
    \/ ToolDone
    \/ ThinkFinish

SpecThink == InitThink /\ [][NextThink]_vars

---------------------------------------------------------------------------
(* main.py's POST /query on one agent.  Requests arrive at any time and    *)
(* wait in `pending`, a bag; the event loop begins the handler of any one  *)
(* of them when no handler is running: query is a coroutine without an     *)
(* await, so the loop runs it, and the think call in it, from its first    *)
(* line to its answer before it begins another.  The answer is 200 with    *)
(* the state read at pc "returned", or 400 at pc "raised".                 *)

ServeQueries ==
    { PlainQuery, SearchCall(QueryKey, TRUE), SearchCall(ToolNameKey, TRUE) }
ServeIterations == {1, 2}

QueryRequest(q, n) == [query |-> q, max_iterations |-> n]

\* A request arrives.
Submit(q, n) ==
    /\ pc \in {"ready", "loop", "call", "executing", "finish", "returned",
                "raised"}
    /\ calls + BagCardinality(pending) < MaxCalls
    /\ pending' = pending (+) SetToBag({QueryRequest(q, n)})
    /\ UNCHANGED <<memVars, agentVars, callVars, storeVars, last_call,
                   taskVars>>

\* Lines 130-139: the handler of a waiting request begins and calls think.
ServeQuery ==
    \E request \in BagToSet(pending) :
        /\ ThinkEnter(request.query, request.max_iterations)
        /\ pending' = pending (-) SetToBag({request})

\* The service's agent: lifespan's, with its memory.
InitServe ==
    /\ InitThink
    /\ use_memory = TRUE

NextServe ==
    \/ \E q \in ServeQueries, n \in ServeIterations : Submit(q, n)
    \/ ServeQuery
    \/ LoopParse
    \/ LoopExhausted
    \/ CallTool
    \/ ToolDone
    \/ ThinkFinish

SpecServe == InitServe /\ [][NextServe]_vars

\* A think call is between its first line and its return.
ThinkRunning == pc \in {"loop", "call", "executing", "finish"}

\* C18: whatever the order in which the requests arrive and are served, the
\* log is the newest max_history of the messages appended, every user
\* message is directly followed by the assistant message of its own query
\* (the last one only once its think call is over), no assistant message
\* stands without its user message, and the state seen when think returns
\* is complete.
C18_QueriesSerialized ==
    /\ Len(history) <= max_history
    /\ history = LastN(appended, Min(Len(appended), max_history))
    /\ \A i \in 1..Len(appended) :
          /\ appended[i].role = "user" =>
                IF i = Len(appended) THEN ThinkRunning
                ELSE appended[i + 1] =
                        Message("assistant",
                                generate_response(<<>>, appended[i].content))
          /\ appended[i].role = "assistant" =>
                (i > 1 /\ appended[i - 1].role = "user")
    /\ pc = "returned" => state = "complete"

---------------------------------------------------------------------------
(* The registry of an agent and the service's direct tool call: tools are  *)
(* registered, looked up and listed, and POST /tool-call executes one.     *)

ToolNames == {SearchName, CalculatorName, <<"a">>}
Funcs == {"search_web", "calculator"}
ToolsToRegister == [name : ToolNames, func : Funcs]

\* The parameters of a direct call: none, search_web's, and one named like
\* execute_tool's own parameter.
Parameters ==
    { <<>>, (QueryKey :> <<"a">>), (ToolNameKey :> <<"a">>) }

MaxRegs == 3

\* The registry is empty, or as main.py's lifespan leaves it.
InitRegistry ==
    /\ InitMemory /\ max_history = DefaultMaxHistory /\ use_memory = TRUE
    /\ state = "idle"
    /\ registered \in {<<>>, <<search_tool, calc_tool>>}
    /\ tools = IF registered = <<>> THEN <<>>
               ELSE register(register(<<>>, search_tool), calc_tool)
    /\ InitCall
    /\ InitStore
    /\ InitCaller
    /\ InitTask
    /\ pc = "registry"

Register(tool) ==
    /\ pc = "registry"
    /\ Len(registered) < MaxRegs
    /\ tools' = register(tools, tool)
    /\ registered' = Append(registered, tool)
    /\ last_call' = [op |-> "register", args |-> <<tool>>, value |-> None]
    /\ UNCHANGED <<memVars, state, callVars, storeVars, pending, taskVars>>

GetTool(name) ==
    /\ pc = "registry"
    /\ last_call' = [op |-> "get_tool", args |-> <<name>>,
                     value |-> get_tool(tools, name)]
    /\ UNCHANGED <<memVars, agentVars, callVars, storeVars, pending, taskVars>>

ListTools ==
    /\ pc = "registry"
    /\ last_call' = [op |-> "list_tools", args |-> <<>>,
                     value |-> list_tools(tools)]
    /\ UNCHANGED <<memVars, agentVars, callVars, storeVars, pending, taskVars>>

\* main.py's call_tool, the handler of POST /tool-call: the call of
\* agent.execute_tool either fails to bind its arguments, and the handler
\* answers 400 with the TypeError, or runs execute_tool, which sets the
\* state and returns a text, and the handler answers 200 with it.
call_tool(tool_name, parameters) ==
    /\ pc = "registry"
    /\ IF CallClashes([params |-> parameters])
       THEN /\ state' = state
            /\ last_call' = [op |-> "call_tool",
                             args |-> <<tool_name, parameters>>,
                             value |-> [status |-> 400, raised |-> TRUE,
                                        detail |-> TypeErrorText]]
       ELSE LET out == ExecuteOutcome(tools, tool_name, parameters)
            IN  /\ state' = out.state
                /\ last_call' = [op |-> "call_tool",
                                 args |-> <<tool_name, parameters>>,
                                 value |-> [status |-> 200, raised |-> FALSE,
                                            tool |-> tool_name,
                                            result |-> out.text,
                                            success |-> TRUE]]
    /\ UNCHANGED <<memVars, registryVars, callVars, storeVars, pending,
                   taskVars>>

NextRegistry ==
    \/ \E tool \in ToolsToRegister : Register(tool)
    \/ \E name \in ToolNames : GetTool(name)
    \/ ListTools
    \/ \E name \in ToolNames, parameters \in Parameters :
           call_tool(name, parameters)

SpecRegistry == InitRegistry /\ [][NextRegistry]_vars

\* The positions in a sequence of tools at which a name occurs first.
FirstRegistrations(regs) ==
    {i \in 1..Len(regs) : \A j \in 1..(i - 1) : regs[j].name # regs[i].name}

\* The k-th least member of a set of numbers.
KthLeast(S, k) == CHOOSE i \in S : Cardinality({j \in S : j <= i}) = k

\* C17: the registry holds one tool for each name ever registered;
\* get_tool returns the tool registered last under the name, and fails with
\* "not found" exactly for a name never registered; list_tools lists the
\* names in the order of their first registration.
C17_RegistryByName ==
    /\ \A i \in 1..Len(tools), j \in 1..Len(tools) :
          tools[i].name = tools[j].name => i = j
    /\ {tools[i].name : i \in 1..Len(tools)} =
          {registered[i].name : i \in 1..Len(registered)}
    /\ last_call.op = "get_tool" =>
          LET name == last_call.args[1]
              regs == {i \in 1..Len(registered) : registered[i].name = name}
          IN  IF regs = {}
              THEN /\ last_call.value.raised
                   /\ last_call.value.text = ToolQuote \o name \o NotFoundSuffix
              ELSE /\ ~last_call.value.raised
                   /\ last_call.value.tool =
                          registered[KthLeast(regs, Cardinality(regs))]
    /\ last_call.op = "list_tools" =>
          LET firsts == FirstRegistrations(registered)
          IN  /\ Len(last_call.value) = Cardinality(firsts)
              /\ \A k \in 1..Cardinality(firsts) :
                    last_call.value[k].name = registered[KthLeast(firsts, k)].name

C17_Witness ==
    /\ last_call.op = "list_tools"
    /\ Len(registered) = 3
    /\ registered[1].name = registered[3].name
    /\ registered[1].func # registered[3].func
    /\ registered[1].name # registered[2].name
    /\ Len(last_call.value) = 2
    /\ last_call.value[1].name = registered[1].name
    /\ ToolAt(tools, registered[1].name) = registered[3]

\* C20: a direct call of a tool whose name is not in the registry lets the
\* "not found" failure out to the caller of execute_tool, and POST
\* /tool-call answers it with a failure, not with a success.
C20_DirectNotFoundFails ==
    (last_call.op = "call_tool" /\ ~HasTool(tools, last_call.args[1])) =>
        /\ last_call.value.raised
        /\ last_call.value.status # 200

---------------------------------------------------------------------------
(* The reasoning loop's claims.                                            *)

\* C2: a think call performs at most max_iterations tool executions, and
\* exactly max_iterations of them when every response the loop examined
\* holds a tool-call marker.
C2_IterationBound ==
    /\ execs <= max_iterations
    /\ (CallEnded /\ Contains(response, OpenMarker)) => execs = max_iterations

\* C3: think never raises for a tool-level problem: whatever call the
\* parser produced, a failure becomes the tool's textual result and the
\* loop goes on.
C3_ThinkNeverRaises ==
    /\ pc # "raised"
    /\ (pc = "loop" /\ iter > 0 /\ state = "error") =>
           SubSeq(tool_result, 1, Len(ErrorPrefix)) = ErrorPrefix

\* C4: every think call ends by returning, and the state it leaves is
\* complete, also after a tool of that call failed.
C4_EndsComplete ==
    CallEnded => (pc = "returned" /\ state = "complete")

\* The transitions section 4.5 of the specification lists.
ListedTransitions ==
    { <<"idle", "thinking">>, <<"thinking", "executing">>,
      <<"executing", "idle">>, <<"executing", "error">>,
      <<"thinking", "complete">>, <<"executing", "complete">> }

\* The transitions think makes besides: a query received after an earlier
\* one completed, a tool dispatched in a later iteration of the loop, and
\* the loop ending after a tool ran.
LoopTransitions ==
    { <<"complete", "thinking">>, <<"idle", "executing">>,
      <<"error", "executing">>, <<"idle", "complete">>,
      <<"error", "complete">> }

\* C5 as claimed: over think calls, every change of the state is one of the
\* listed transitions.
C5_OnlyListedTransitions ==
    [][state' # state => <<state, state'>> \in ListedTransitions]_vars

\* C5 as amended: over think calls, every change of the state is a listed
\* transition, or complete to thinking, idle or error to executing, or
\* idle or error to complete.
C5_ThinkTransitions ==
    [][state' # state =>
          <<state, state'>> \in ListedTransitions \cup LoopTransitions]_vars

C5_Witness ==
    /\ pc = "returned"
    /\ calls = 2
    /\ execs = 2
    /\ state = "complete"
    /\ SubSeq(tool_result, 1, Len(ErrorPrefix)) = ErrorPrefix

\* C6: with memory enabled a think call appends exactly two messages, the
\* user's query and then the assistant's response, which are the two newest
\* entries of a log of capacity two or more; with memory disabled it
\* appends nothing.
C6_TwoMessagesPerCall ==
    /\ ~use_memory => (appended = <<>> /\ history = <<>>)
    /\ (use_memory /\ CallEnded) =>
          /\ Len(appended) = 2 * calls
          /\ LastN(appended, 2) = <<Message("user", query),
                                    Message("assistant", response)>>
          /\ max_history >= 2 =>
                /\ Len(history) >= 2
                /\ LastN(history, 2) = LastN(appended, 2)

---------------------------------------------------------------------------
(* rag.py: VectorStore.                                                    *)

DefaultTopK == 5

UpperLetters ==
    <<"A", "B", "C", "D", "E", "F", "G", "H", "I", "J", "K", "L", "M",
      "N", "O", "P", "Q", "R", "S", "T", "U", "V", "W", "X", "Y", "Z">>
LowerLetters ==
    <<"a", "b", "c", "d", "e", "f", "g", "h", "i", "j", "k", "l", "m",
      "n", "o", "p", "q", "r", "s", "t", "u", "v", "w", "x", "y", "z">>

LowerChar(c) ==
    IF \E i \in 1..26 : UpperLetters[i] = c
    THEN LowerLetters[CHOOSE i \in 1..26 : UpperLetters[i] = c]
    ELSE c

\* s.lower()
Lower(s) == [i \in 1..Len(s) |-> LowerChar(s[i])]

RECURSIVE SplitWhitespace(_)
\* s.split(): the runs of non-whitespace characters, in order.
SplitWhitespace(s) ==
    LET t == LStrip(s)
        blanks == {i \in 1..Len(t) : t[i] \in Whitespace}
        stop == IF blanks = {} THEN Len(t) + 1
                ELSE CHOOSE i \in blanks : \A j \in blanks : i <= j
    IN  IF t = <<>> THEN <<>>
        ELSE <<SubSeq(t, 1, stop - 1)>>
                 \o SplitWhitespace(SubSeq(t, stop, Len(t)))

\* A term set taken without lower-casing.
TermsCaseSensitive(s) ==
    LET words == SplitWhitespace(s)
    IN  {words[i] : i \in 1..Len(words)}

\* set(s.lower().split())
Terms(s) ==
    LET words == SplitWhitespace(Lower(s))
    IN  {words[i] : i \in 1..Len(words)}

RECURSIVE Gcd(_, _)
Gcd(a, b) == IF b = 0 THEN a ELSE Gcd(b, a % b)

\* overlap / len(union): the quotient, held in lowest terms so that equal
\* floats are equal values.
Quotient(n, d) == [num |-> n \div Gcd(n, d), den |-> d \div Gcd(n, d)]

ScoreLess(a, b) == a.num * b.den < b.num * a.den

\* Lines 17-21 of add_document: the dict it builds.
new_document(docs, content, metadata) ==
    [content |-> content, metadata |-> metadata, doc_id |-> Len(docs)]

\* VectorStore.add_document: the documents it leaves.
add_document(docs, content, metadata) ==
    Append(docs, new_document(docs, content, metadata))

\* A lookup that lets a negative id count from the end, as a list index
\* does.
get_documentWraps(docs, doc_id) ==
    IF doc_id < Len(docs)
    THEN IF doc_id >= 0 THEN docs[doc_id + 1]
         ELSE IF -doc_id <= Len(docs) THEN docs[Len(docs) + doc_id + 1]
         ELSE None
    ELSE None

\* VectorStore.get_document
get_document(docs, doc_id) ==
    IF 0 <= doc_id /\ doc_id < Len(docs) THEN docs[doc_id + 1] ELSE None

RECURSIVE ScoredOverQuery(_, _, _)
\* The score taken over the query's terms instead of the union.
ScoredOverQuery(docs, query_terms, i) ==
    IF i > Len(docs) THEN <<>>
    ELSE LET doc == docs[i]
             doc_terms == Terms(doc.content)
             overlap == Cardinality(query_terms \cap doc_terms)
         IN  (IF overlap > 0
              THEN <<[doc_id |-> doc.doc_id, content |-> doc.content,
                      metadata |-> doc.metadata,
                      score |-> Quotient(overlap, Cardinality(query_terms))]>>
              ELSE <<>>)
             \o ScoredOverQuery(docs, query_terms, i + 1)

RECURSIVE Scored(_, _, _)
\* The for loop of search from document i on: a result for each document
\* that shares a term with the query.
Scored(docs, query_terms, i) ==
    IF i > Len(docs) THEN <<>>
    ELSE LET doc == docs[i]
             doc_terms == Terms(doc.content)
             overlap == Cardinality(query_terms \cap doc_terms)
         IN  (IF overlap > 0
              THEN <<[doc_id |-> doc.doc_id, content |-> doc.content,
                      metadata |-> doc.metadata,
                      score |-> Quotient(overlap,
                                   Cardinality(query_terms \cup doc_terms))]>>
              ELSE <<>>)
             \o Scored(docs, query_terms, i + 1)

RECURSIVE InsertByScoreUnstable(_, _)
\* x placed before the entries whose score equals its own: a sort that is
\* not stable.
InsertByScoreUnstable(sorted, x) ==
    IF sorted = <<>> THEN <<x>>
    ELSE IF ~ScoreLess(x.score, Head(sorted).score) THEN <<x>> \o sorted
    ELSE <<Head(sorted)>> \o InsertByScoreUnstable(Tail(sorted), x)

RECURSIVE InsertByScore(_, _)
\* x placed behind every entry whose score is not less than its own.
InsertByScore(sorted, x) ==
    IF sorted = <<>> THEN <<x>>
    ELSE IF ScoreLess(Head(sorted).score, x.score) THEN <<x>> \o sorted
    ELSE <<Head(sorted)>> \o InsertByScore(Tail(sorted), x)

RECURSIVE SortByScore(_, _)
\* results.sort(key=score, reverse=True): descending, and stable.
SortByScore(rs, i) ==
    IF i = 0 THEN <<>>
    ELSE InsertByScore(SortByScore(rs, i - 1), rs[i])

\* A search that returns the whole ranking.
searchUntruncated(docs, q, k) ==
    LET scored == Scored(docs, Terms(q), 1)
    IN  SortByScore(scored, Len(scored))

\* VectorStore.search
search(docs, q, k) ==
    LET scored == Scored(docs, Terms(q), 1)
    IN  Slice(SortByScore(scored, Len(scored)), 0, k)

---------------------------------------------------------------------------
(* The store on its own: documents are added and searches are made.  pc    *)
(* is "searched" when the last operation was a search, whose arguments and *)
(* result are kept until the next operation begins.                        *)

DocContents ==
    { <<"a">>, <<"A", " ", "b">>, <<"b", "\n", "b", " ", "c">>, <<" ">> }

\* The example of the specification: three documents and a query.
TheCatSat ==
    <<"t", "h", "e", " ", "c", "a", "t", " ", "s", "a", "t">>
TheDogRan ==
    <<"t", "h", "e", " ", "d", "o", "g", " ", "r", "a", "n">>
CatsAndDogs ==
    <<"c", "a", "t", "s", " ", "a", "n", "d", " ", "d", "o", "g", "s">>
CatDog ==
    <<"c", "a", "t", " ", "d", "o", "g">>
Cat == <<"c", "a", "t">>
Dog == <<"d", "o", "g">>

\* The store after the three documents of the example were added in order.
ExampleStore ==
    add_document(add_document(add_document(<<>>, TheCatSat, <<>>),
                              TheDogRan, <<>>),
                 CatsAndDogs, <<>>)

Queries ==
    { <<>>, <<" ", "\n">>, <<"B", " ", "a">>, <<"c", " ", "e">>, CatDog }
TopKs == {-1, 0, 1, 2, DefaultTopK}
DocIds == (-2)..(MaxDocs + 1)

\* The store is empty, or holds the documents of the example.
InitSearch ==
    /\ InitMemory /\ max_history = DefaultMaxHistory /\ use_memory = TRUE
    /\ InitAgent
    /\ InitCall
    /\ documents \in {<<>>, ExampleStore}
    /\ search_query = <<>>
    /\ top_k = 0
    /\ results = <<>>
    /\ InitCaller
    /\ InitTask
    /\ pc = "store"

AddDocument(content) ==
    /\ pc \in {"store", "searched"}
    /\ Len(documents) < MaxDocs
    /\ documents' = add_document(documents, content, <<>>)
    /\ search_query' = <<>>
    /\ top_k' = 0
    /\ results' = <<>>
    /\ pc' = "store"
    /\ last_call' = NoCall
    /\ UNCHANGED <<memVars, agentVars, pending, taskVars, query,
                   max_iterations, response, tool_section, tool_call, iter,
                   execs, tool_result, calls>>

Search(q, k) ==
    /\ pc \in {"store", "searched"}
    /\ search_query' = q
    /\ top_k' = k
    /\ results' = search(documents, q, k)
    /\ pc' = "searched"
    /\ last_call' = NoCall
    /\ UNCHANGED <<memVars, agentVars, pending, taskVars, documents, query,
                   max_iterations, response, tool_section, tool_call, iter,
                   execs, tool_result, calls>>

GetDocument(doc_id) ==
    /\ pc \in {"store", "searched"}
    /\ last_call' = [op |-> "get_document", args |-> <<doc_id>>,
                     value |-> get_document(documents, doc_id)]
    /\ search_query' = <<>>
    /\ top_k' = 0
    /\ results' = <<>>
    /\ pc' = "store"
    /\ UNCHANGED <<memVars, agentVars, pending, taskVars, documents, query,
                   max_iterations, response, tool_section, tool_call, iter,
                   execs, tool_result, calls>>

NextSearch ==
    \/ \E content \in DocContents : AddDocument(content)
    \/ \E q \in Queries, k \in TopKs : Search(q, k)
    \/ \E doc_id \in DocIds : GetDocument(doc_id)

SpecSearch == InitSearch /\ [][NextSearch]_vars

---------------------------------------------------------------------------
(* main.py's GET /rag beside additions to the store.  The request is made  *)
(* before or after lifespan has built the agent, and of an agent with or   *)
(* without a pipeline.                                                     *)

PreviewLength == 50

Ellipsis == <<".", ".", ".">>

\* RAGPipeline.get_stats
get_stats(docs) ==
    [total_documents |-> Len(docs),
     documents |->
        [i \in 1..Len(docs) |->
            [id |-> docs[i].doc_id,
             preview |-> Slice(docs[i].content, 0, PreviewLength) \o Ellipsis,
             metadata |-> docs[i].metadata]]]

NotInitializedDetail == "RAG pipeline not initialized"

\* get_rag_stats: with agent None the test `agent or agent.rag_pipeline is
\* None` reads an attribute of None and the handler ends in an unhandled
\* AttributeError, the framework's 500; an agent is true, so the test is
\* true without looking at its pipeline, and line 224 is never run.
get_rag_stats(agent_set, pipeline_set, docs) ==
    IF ~agent_set
    THEN [status_code |-> 500, detail |-> "Internal Server Error",
          body |-> None]
    ELSE [status_code |-> 500, detail |-> NotInitializedDetail, body |-> None]

RagStates == { <<FALSE, FALSE>>, <<TRUE, FALSE>>, <<TRUE, TRUE>> }

GetRagStats(agent_set, pipeline_set) ==
    /\ pc = "store"
    /\ last_call' = [op |-> "get_rag_stats",
                     args |-> <<agent_set, pipeline_set>>,
                     value |-> get_rag_stats(agent_set, pipeline_set,
                                             documents)]
    /\ UNCHANGED <<memVars, agentVars, pending, taskVars, storeVars, callVars,
                   pc>>

NextStats ==
    \/ \E content \in DocContents : AddDocument(content)
    \/ \E s \in RagStates : GetRagStats(s[1], s[2])

SpecStats == InitSearch /\ [][NextStats]_vars

\* C22: GET /rag answers with the pipeline's statistics whenever the agent
\* and its pipeline are there, and answers "not initialized" only when the
\* agent or the pipeline is absent.
C22_RagStatsWhenInitialized ==
    last_call.op = "get_rag_stats" =>
        LET initialized == last_call.args[1] /\ last_call.args[2]
        IN  /\ initialized =>
                  /\ last_call.value.status_code = 200
                  /\ last_call.value.body = get_stats(documents)
            /\ last_call.value.detail = NotInitializedDetail => ~initialized

---------------------------------------------------------------------------
(* An ingestion and a search on one store, each advancing a statement at a *)
(* time in any interleaving, as when the two run in different threads; the *)
(* service, which runs each handler to its end, makes some of these.  One  *)
(* ingestion runs at a time.                                               *)

FileContents == {<<>>, <<"a">>, <<"A", " ", "b">>}
MaxFile == 2
Files == SeqsUpTo(FileContents, MaxFile)
TextMetadata == [type |-> "text"]
TaskQueries == { <<"B", " ", "a">> }
TaskTopKs == {1, DefaultTopK}

InitIngest ==
    /\ InitMemory /\ max_history = DefaultMaxHistory /\ use_memory = TRUE
    /\ InitAgent
    /\ InitCall
    /\ InitStore
    /\ InitCaller
    /\ InitTask
    /\ pc = "tasks"

\* ingest_file up to line 92: the file's documents are at hand.
IngestBegin(file) ==
    /\ pc = "tasks"
    /\ ingester.pc = "idle"
    /\ Len(documents) + Len(file) <= MaxDocs
    /\ ingester' = [pc |-> "loop", documents |-> file, doc |-> None]
    /\ UNCHANGED <<memVars, agentVars, callVars, storeVars, callerVars,
                   searcher>>

\* Lines 93-96: the next document of the file; one without content is
\* passed over.
IngestSkip ==
    /\ pc = "tasks"
    /\ ingester.pc = "loop"
    /\ ingester.documents # <<>>
    /\ Head(ingester.documents) = <<>>
    /\ ingester' = [ingester EXCEPT !.documents = Tail(@)]
    /\ UNCHANGED <<memVars, agentVars, callVars, storeVars, callerVars,
                   searcher>>

\* The dict appended to the store as soon as it holds its content, the
\* other keys being set afterwards.
IngestBuildPublishes ==
    /\ pc = "tasks"
    /\ ingester.pc = "loop"
    /\ ingester.documents # <<>>
    /\ Head(ingester.documents) # <<>>
    /\ documents' = Append(documents, [content |-> Head(ingester.documents)])
    /\ ingester' = [pc |-> "append",
                    documents |-> Tail(ingester.documents),
                    doc |-> new_document(documents, Head(ingester.documents),
                                         TextMetadata)]
    /\ UNCHANGED <<memVars, agentVars, callVars, search_query, top_k, results,
                   callerVars, searcher>>

\* Lines 93-97 and 17-21: add_document is called and builds its dict, the
\* store being as it was.
IngestBuild ==
    /\ pc = "tasks"
    /\ ingester.pc = "loop"
    /\ ingester.documents # <<>>
    /\ Head(ingester.documents) # <<>>
    /\ ingester' = [pc |-> "append",
                    documents |-> Tail(ingester.documents),
                    doc |-> new_document(documents, Head(ingester.documents),
                                         TextMetadata)]
    /\ UNCHANGED <<memVars, agentVars, callVars, storeVars, callerVars,
                   searcher>>

\* Line 22: the dict is appended.
IngestAppend ==
    /\ pc = "tasks"
    /\ ingester.pc = "append"
    /\ documents' = Append(documents, ingester.doc)
    /\ ingester' = [ingester EXCEPT !.pc = "loop", !.doc = None]
    /\ UNCHANGED <<memVars, agentVars, callVars, search_query, top_k, results,
                   callerVars, searcher>>

\* Lines 99-106: the loop is over and ingest_file returns.
IngestEnd ==
    /\ pc = "tasks"
    /\ ingester.pc = "loop"
    /\ ingester.documents = <<>>
    /\ ingester' = IdleIngester
    /\ UNCHANGED <<memVars, agentVars, callVars, storeVars, callerVars,
                   searcher>>

\* Lines 27-28 of search.
SearchBegin(q, k) ==
    /\ pc = "tasks"
    /\ searcher.pc \in {"idle", "done"}
    /\ searcher' = [pc |-> "iter", query_terms |-> Terms(q), top_k |-> k,
                    i |-> 0, results |-> <<>>]
    /\ search_query' = q
    /\ top_k' = k
    /\ results' = <<>>
    /\ UNCHANGED <<memVars, agentVars, callVars, documents, callerVars,
                   ingester>>

\* Lines 30-40: the list iterator yields the document at its index, if the
\* list now has one there, and the loop body scores it.
SearchStep ==
    /\ pc = "tasks"
    /\ searcher.pc = "iter"
    /\ searcher.i < Len(documents)
    /\ searcher' =
          [searcher EXCEPT
              !.i = @ + 1,
              !.results = @ \o Scored(<<documents[searcher.i + 1]>>,
                                      searcher.query_terms, 1)]
    /\ UNCHANGED <<memVars, agentVars, callVars, storeVars, callerVars,
                   ingester>>

\* Lines 42-44: the iterator is exhausted; the results are sorted, cut and
\* returned.
SearchReturn ==
    /\ pc = "tasks"
    /\ searcher.pc = "iter"
    /\ searcher.i >= Len(documents)
    /\ results' = Slice(SortByScore(searcher.results, Len(searcher.results)),
                        0, searcher.top_k)
    /\ searcher' = [searcher EXCEPT !.pc = "done"]
    /\ UNCHANGED <<memVars, agentVars, callVars, documents, search_query,
                   top_k, callerVars, ingester>>

NextIngest ==
    \/ \E file \in Files : IngestBegin(file)
    \/ IngestSkip
    \/ IngestBuild
    \/ IngestAppend
    \/ IngestEnd
    \/ \E q \in TaskQueries, k \in TaskTopKs : SearchBegin(q, k)
    \/ SearchStep
    \/ SearchReturn

SpecIngest == InitIngest /\ [][NextIngest]_vars

\* A result of a search is the document the store holds under its doc_id.
IsStored(result) ==
    /\ result.doc_id \in 0..(Len(documents) - 1)
    /\ documents[result.doc_id + 1].content = result.content
    /\ documents[result.doc_id + 1].metadata = result.metadata

\* C19: at every moment of an ingestion every document of the store has
\* its content, its metadata and the doc_id of its position, so a search
\* running meanwhile collects and returns only such documents, and none
\* whose insertion has begun and is not finished.
C19_ConsistentSnapshot ==
    /\ \A n \in 1..Len(documents) :
          /\ DOMAIN documents[n] = {"content", "metadata", "doc_id"}
          /\ documents[n].doc_id = n - 1
          /\ documents[n].content # <<>>
    /\ \A r \in 1..Len(searcher.results) :
          /\ IsStored(searcher.results[r])
          /\ searcher.results[r].doc_id < searcher.i
    /\ \A r \in 1..Len(results) : IsStored(results[r])
    /\ ingester.pc = "append" =>
          /\ ingester.doc.doc_id = Len(documents)
          /\ \A r \in 1..Len(searcher.results) :
                searcher.results[r].doc_id # ingester.doc.doc_id

C19_Witness ==
    /\ searcher.pc = "done"
    /\ ingester.pc = "append"
    /\ Len(documents) = 2
    /\ searcher.i = 2
    /\ Len(results) = 1
    /\ IsStored(results[1])
    /\ ingester.doc.content # <<>>

---------------------------------------------------------------------------
(* ingest.py: what ingest_file counts.  The service's POST /ingest runs    *)
(* ingest_file to its end and answers with the count as documents_added;   *)
(* get_ingestion_stats sums the counts of the log.  A file is the list of  *)
(* documents its processor made of it.                                     *)

MaxIngests == 2
RecentLength == 5

\* The documents a processor yields: one with content, one whose content is
\* empty (a .txt read whole with chunk=False, or a JSON entry), and a JSON
\* entry without content; each has its source.
FileSource == "f"
FileDocuments ==
    { [content |-> <<"a">>, source |-> FileSource],
      [content |-> <<>>, source |-> FileSource],
      [source |-> FileSource] }
ProcessedFiles == SeqsUpTo(FileDocuments, MaxFile)

\* Line 94: doc.get("content") or doc.get("text", "")
content_of(doc) ==
    IF "content" \in DOMAIN doc /\ doc.content # <<>> THEN doc.content
    ELSE IF "text" \in DOMAIN doc THEN doc.text
    ELSE <<>>

\* Line 95: the document's other keys.
metadata_of(doc) == [k \in (DOMAIN doc) \ {"content"} |-> doc[k]]

\* Lines 93-97: the store after the loop over the file's documents.
RECURSIVE add_file_documents(_, _)
add_file_documents(docs, file) ==
    IF file = <<>> THEN docs
    ELSE add_file_documents(
            IF content_of(Head(file)) # <<>>
            THEN add_document(docs, content_of(Head(file)),
                              metadata_of(Head(file)))
            ELSE docs,
            Tail(file))

\* KnowledgeIngester.ingest_file on a file that exists and has a known
\* extension: the store, the log and the count it leaves.
ingest_file(ing, docs, file) ==
    [documents |-> IF ing.rag_pipeline THEN add_file_documents(docs, file)
                   ELSE docs,
     ingestion_log |-> Append(ing.ingestion_log,
                              [documents_added |-> Len(file)]),
     value |-> Len(file)]

RECURSIVE SumAdded(_)
SumAdded(log) ==
    IF log = <<>> THEN 0 ELSE Head(log).documents_added + SumAdded(Tail(log))

\* KnowledgeIngester.get_ingestion_stats
get_ingestion_stats(ing) ==
    [total_ingestions |-> Len(ing.ingestion_log),
     recent |-> Slice(ing.ingestion_log, 0 - RecentLength,
                      Len(ing.ingestion_log)),
     total_documents_ingested |-> SumAdded(ing.ingestion_log)]

\* KnowledgeIngester.__init__, with the pipeline as lifespan passes it or
\* without one; the store is empty.
InitCount ==
    /\ InitMemory /\ max_history = DefaultMaxHistory /\ use_memory = TRUE
    /\ InitAgent
    /\ InitCall
    /\ InitStore
    /\ InitCaller
    /\ ingester \in [rag_pipeline : BOOLEAN, ingestion_log : {<<>>}]
    /\ searcher = IdleSearcher
    /\ pc = "count"

\* One call of ingest_file; `before` is the number of documents the store
\* held when it began.
IngestFile(file) ==
    /\ pc = "count"
    /\ Len(ingester.ingestion_log) < MaxIngests
    /\ LET out == ingest_file(ingester, documents, file)
       IN  /\ Len(out.documents) <= MaxDocs
           /\ documents' = out.documents
           /\ ingester' = [ingester EXCEPT
                              !.ingestion_log = out.ingestion_log]
           /\ last_call' = [op |-> "ingest_file", args |-> <<file>>,
                            value |-> out.value, before |-> Len(documents)]
    /\ UNCHANGED <<memVars, agentVars, callVars, search_query, top_k, results,
                   pending, searcher>>

IngestionStats ==
    /\ pc = "count"
    /\ last_call' = [op |-> "get_ingestion_stats", args |-> <<>>,
                     value |-> get_ingestion_stats(ingester)]
    /\ UNCHANGED <<memVars, agentVars, callVars, storeVars, pending,
                   taskVars>>

NextCount ==
    \/ \E file \in ProcessedFiles : IngestFile(file)
    \/ IngestionStats

SpecCount == InitCount /\ [][NextCount]_vars

\* C25: the count ingest_file returns is the number of documents the call
\* added to the store, and the total of get_ingestion_stats is the number
\* of documents the ingestions added, whatever the file's documents are and
\* with or without a pipeline.
C25_CountIsAdded ==
    /\ last_call.op = "ingest_file" =>
          last_call.value = Len(documents) - last_call.before
    /\ last_call.op = "get_ingestion_stats" =>
          last_call.value.total_documents_ingested = Len(documents)

\* The lower-cased terms of a text, by position: every maximal run of
\* characters that are not whitespace.
TermSet(s) ==
    { Lower(SubSeq(s, i, j)) :
        <<i, j>> \in { <<a, b>> \in (1..Len(s)) \X (1..Len(s)) :
            /\ a <= b
            /\ \A n \in a..b : s[n] \notin Whitespace
            /\ a = 1 \/ s[a - 1] \in Whitespace
            /\ b = Len(s) \/ s[b + 1] \in Whitespace } }

\* The documents of the store that share a term with the query.
Matching(docs, q) ==
    {i \in 1..Len(docs) : TermSet(docs[i].content) \cap TermSet(q) # {}}

\* C10: search returns a document only if its term set shares a term with
\* the query's, returns every such document when top_k is at least their
\* number, and returns nothing for a query without terms.
C10_SearchMatches ==
    pc = "searched" =>
        /\ \A r \in 1..Len(results) :
              (results[r].doc_id + 1) \in Matching(documents, search_query)
        /\ top_k >= Cardinality(Matching(documents, search_query)) =>
              \A i \in Matching(documents, search_query) :
                  \E r \in 1..Len(results) : results[r].doc_id = i - 1
        /\ TermSet(search_query) = {} => results = <<>>

C10_Witness ==
    /\ pc = "searched"
    /\ search_query = <<"B", " ", "a">>
    /\ Len(documents) = 3
    /\ Cardinality(Matching(documents, search_query)) = 2
    /\ Len(results) = 2
    /\ top_k = 2
    /\ \E r \in 1..2 : results[r].content = <<"A", " ", "b">>

\* C11: every result carries the score |query terms /\ document terms| /
\* |query terms \/ document terms|, which is above 0 and at most 1; for the
\* documents "the cat sat", "the dog ran", "cats and dogs" and the query
\* "cat dog" the first two are returned with score 1/4 each and the third
\* is not returned.
C11_JaccardScore ==
    pc = "searched" =>
        /\ \A r \in 1..Len(results) :
              LET d     == documents[results[r].doc_id + 1]
                  both  == Cardinality(TermSet(search_query) \cap TermSet(d.content))
                  all   == Cardinality(TermSet(search_query) \cup TermSet(d.content))
                  score == results[r].score
              IN  /\ score.num * all = both * score.den
                  /\ score.den > 0
                  /\ 0 < score.num
                  /\ score.num <= score.den
        /\ (documents = ExampleStore /\ search_query = CatDog /\ top_k >= 2) =>
              /\ Len(results) = 2
              /\ \A r \in 1..2 : results[r].score = [num |-> 1, den |-> 4]
              /\ {results[r].content : r \in 1..2} = {TheCatSat, TheDogRan}

C11_Witness ==
    /\ pc = "searched"
    /\ documents = ExampleStore
    /\ search_query = CatDog
    /\ top_k = DefaultTopK
    /\ Len(results) = 2
    /\ results[1].score = [num |-> 1, den |-> 4]

\* C12: the results are in descending order of score, and results of equal
\* score are in ascending order of doc_id, which is the order of insertion.
C12_RankedStable ==
    pc = "searched" =>
        \A r \in 1..Len(results), t \in 1..Len(results) :
            r < t =>
                /\ ~ScoreLess(results[r].score, results[t].score)
                /\ results[r].score = results[t].score =>
                       results[r].doc_id < results[t].doc_id

C12_Witness ==
    /\ pc = "searched"
    /\ Len(results) = 3
    /\ results[1].score = results[2].score
    /\ results[2].score = results[3].score
    /\ <<results[1].doc_id, results[2].doc_id, results[3].doc_id>> = <<0, 1, 2>>

\* The full ranking of the documents that match a query.
Ranking(docs, q) ==
    LET scored == Scored(docs, Terms(q), 1)
    IN  SortByScore(scored, Len(scored))

\* C13 as claimed: for every integer top_k the result is the first top_k
\* entries of the ranking, min(top_k, matching documents) of them and never
\* more than top_k.
C13_TruncatesToTopK ==
    pc = "searched" =>
        /\ Len(results) = Min(top_k, Cardinality(Matching(documents, search_query)))
        /\ Len(results) <= top_k
        /\ results = SubSeq(Ranking(documents, search_query), 1, Len(results))

\* C13 as amended: for top_k >= 0 the result is the first min(top_k,
\* matching documents) entries of the ranking; for top_k < 0 it is the
\* ranking without its last -top_k entries.
C13_TruncatesNonNegative ==
    pc = "searched" =>
        LET matching == Cardinality(Matching(documents, search_query))
            kept     == IF top_k >= 0 THEN Min(top_k, matching)
                        ELSE Max(0, matching + top_k)
        IN  /\ Len(results) = kept
            /\ results = SubSeq(Ranking(documents, search_query), 1, kept)

C13_Witness ==
    /\ pc = "searched"
    /\ top_k = 1
    /\ Cardinality(Matching(documents, search_query)) = 2
    /\ Len(results) = 1
    /\ results[1] = Ranking(documents, search_query)[1]

\* C14: an insertion adds one document at the end, whose doc_id is the
\* number of documents inserted before it, and changes no document already
\* in the store; get_document(i) returns the document of doc_id i when
\* 0 <= i < count, and the absent value for every other i.
C14_DocIds ==
    [][/\ Len(documents') \in {Len(documents), Len(documents) + 1}
       /\ \A n \in 1..Len(documents) : documents'[n] = documents[n]
       /\ \A n \in 1..Len(documents') : documents'[n].doc_id = n - 1
       /\ last_call'.op = "get_document" =>
              LET i == last_call'.args[1]
              IN  IF 0 <= i /\ i < Len(documents')
                  THEN /\ last_call'.value # None
                       /\ last_call'.value.doc_id = i
                       /\ last_call'.value = documents'[i + 1]
                  ELSE last_call'.value = None]_vars

C14_Witness ==
    /\ last_call.op = "get_document"
    /\ last_call.args = <<2>>
    /\ Len(documents) = 3
    /\ last_call.value # None
    /\ last_call.value.doc_id = 2
    /\ documents[1].doc_id = 0

---------------------------------------------------------------------------
(* The agent used by a caller that holds it: think calls, direct calls of  *)
(* execute_tool and resets, one after the other, on an agent whose store   *)
(* holds documents.  A direct call stands at pc "direct" between the       *)
(* assignment of executing and the outcome; pc is "ready" whenever no call *)
(* is in progress and the last one was not a think.                        *)

ExecQueries ==
    { PlainQuery, SearchCall(QueryKey, TRUE), UnknownToolQuery,
      SearchCall(ToolNameKey, TRUE) }

InitExec ==
    /\ InitMemory /\ max_history = DefaultMaxHistory /\ use_memory = TRUE
    /\ state = "idle"
    /\ tools = register(register(<<>>, search_tool), calc_tool)
    /\ registered = <<search_tool, calc_tool>>
    /\ InitCall
    /\ documents = ExampleStore
    /\ search_query = <<>>
    /\ top_k = 0
    /\ results = <<>>
    /\ InitCaller
    /\ InitTask
    /\ pc = "ready"

\* Agent.execute_tool(tool_name, **kwargs) called from outside think: the
\* call fails to bind its arguments, and the TypeError is the caller's, or
\* line 124 sets the state.
ExecuteToolCall(tool_name, kwargs) ==
    /\ pc \in {"ready", "returned", "raised"}
    /\ IF CallClashes([params |-> kwargs])
       THEN /\ state' = state
            /\ last_call' = [op |-> "execute_tool",
                             args |-> <<tool_name, kwargs>>,
                             value |-> Raises(TypeErrorText)]
            /\ pc' = "ready"
       ELSE /\ state' = "executing"
            /\ last_call' = [op |-> "execute_tool",
                             args |-> <<tool_name, kwargs>>,
                             value |-> None]
            /\ pc' = "direct"
    /\ UNCHANGED <<memVars, registryVars, storeVars, pending, taskVars, query,
                   max_iterations, response, tool_section, tool_call, iter,
                   execs, tool_result, calls>>

\* Lines 125-130: the registry runs the tool, and execute_tool sets the
\* state and returns a text.
ExecuteToolReturn ==
    /\ pc = "direct"
    /\ LET out == ExecuteOutcome(tools, last_call.args[1], last_call.args[2])
       IN  /\ state' = out.state
           /\ last_call' = [last_call EXCEPT !.value = Returns(out.text)]
    /\ pc' = "ready"
    /\ UNCHANGED <<memVars, registryVars, storeVars, pending, taskVars, query,
                   max_iterations, response, tool_section, tool_call, iter,
                   execs, tool_result, calls>>

\* A reset that also empties the store.
ResetStore ==
    /\ pc \in {"ready", "returned", "raised"}
    /\ state' = "idle"
    /\ history' = IF use_memory THEN clear ELSE history
    /\ appended' = IF use_memory THEN <<>> ELSE appended
    /\ documents' = <<>>
    /\ last_call' = [op |-> "reset", args |-> <<>>, value |-> None]
    /\ pc' = "ready"
    /\ UNCHANGED <<max_history, use_memory, registryVars, search_query, top_k,
                   results, pending, taskVars, query, max_iterations, response,
                   tool_section, tool_call, iter, execs, tool_result, calls>>

\* Agent.reset
Reset ==
    /\ pc \in {"ready", "returned", "raised"}
    /\ state' = "idle"
    /\ history' = IF use_memory THEN clear ELSE history
    /\ appended' = IF use_memory THEN <<>> ELSE appended
    /\ last_call' = [op |-> "reset", args |-> <<>>, value |-> None]
    /\ pc' = "ready"
    /\ UNCHANGED <<max_history, use_memory, registryVars, storeVars, pending,
                   taskVars, query, max_iterations, response, tool_section,
                   tool_call, iter, execs, tool_result, calls>>

NextExec ==
    \/ \E q \in ExecQueries, n \in ServeIterations : ThinkStart(q, n)
    \/ LoopParse
    \/ LoopExhausted
    \/ CallTool
    \/ ToolDone
    \/ ThinkFinish
    \/ \E name \in ToolNames, kwargs \in Parameters :
           ExecuteToolCall(name, kwargs)
    \/ ExecuteToolReturn
    \/ Reset

SpecExec == InitExec /\ [][NextExec]_vars

\* What execute_tool makes of the registry's outcome r: the state and the
\* text, stated on the next state, whose text is `text`.
WrapsOutcome(r, text) ==
    /\ r.raised => (state' = "error" /\ text = ErrorPrefix \o r.text)
    /\ ~r.raised => (state' = "idle" /\ text = r.text)

\* The steps that end a stay in the error state, as C21 names them: a think
\* begins, execute_tool begins, or reset.
LeavesErrorAsClaimed ==
    \/ pc' = "loop" /\ calls' = calls + 1
    \/ state' = "executing"
    \/ last_call'.op = "reset" /\ pc' = "ready"

\* What C21 says of execute_tool while it runs and when it returns.
ExecuteToolSteps ==
    /\ pc' \in {"direct", "executing"} => state' = "executing"
    /\ pc = "direct" =>
          /\ pc' = "ready"
          /\ ~last_call'.value.raised
          /\ WrapsOutcome(RegistryExecute(tools, last_call.args[1],
                                          last_call.args[2]),
                          last_call'.value.text)
    /\ pc = "executing" =>
          /\ pc' = "loop"
          /\ WrapsOutcome(RegistryExecute(tools, tool_call.tool,
                                          tool_call.params),
                          tool_result')

\* C21 as claimed: the state is executing while the tool runs; when it
\* returns the state is idle and its text is returned; when it raises with
\* message m the state is error, "Tool execution error: " and m is
\* returned and nothing is raised; and the state leaves error only when the
\* next think or execute_tool begins or on reset.
C21_ErrorUntilNextCall ==
    [][/\ ExecuteToolSteps
       /\ (state = "error" /\ state' # "error") => LeavesErrorAsClaimed]_vars

\* C21 as amended: as claimed, except that the state also leaves error
\* when the think call whose loop called execute_tool ends and sets
\* complete.
C21_ExecuteToolStates ==
    [][/\ ExecuteToolSteps
       /\ (state = "error" /\ state' # "error") =>
              \/ LeavesErrorAsClaimed
              \/ pc = "finish" /\ pc' = "returned" /\ state' = "complete"]_vars

C21_Witness ==
    /\ pc = "ready"
    /\ last_call.op = "execute_tool"
    /\ last_call.args[1] = CalculatorName
    /\ DOMAIN last_call.args[2] = {QueryKey}
    /\ last_call.value = Returns(ErrorPrefix \o TypeErrorText)
    /\ calls > 0
    /\ state = "error"

\* C24: no step of think, execute_tool or reset changes a document of the
\* store or a registered tool; reset leaves the state idle and the log
\* empty.
C24_StoreAndRegistryKept ==
    [][/\ documents' = documents
       /\ tools' = tools
       /\ (last_call'.op = "reset" /\ pc' = "ready") =>
              (state' = "idle" /\ history' = <<>>)]_vars

C24_Witness ==
    /\ last_call.op = "reset"
    /\ pc = "ready"
    /\ calls = 2
    /\ execs > 0
    /\ state = "idle"
    /\ history = <<>>
    /\ documents = ExampleStore
    /\ Len(tools) = 2

---------------------------------------------------------------------------
(* The whole model: each behaviour is one of the memory on its own, the    *)
(* parser on a text, the agent serving think calls, the store on its own,  *)
(* the registry with the direct tool call, the service's queries, an       *)
(* ingestion beside a search, a caller's calls on one agent, the           *)
(* statistics of the store, or ingestions and their counts.                *)

Init ==
    InitMem \/ InitParse \/ InitThink \/ InitSearch \/ InitRegistry
        \/ InitIngest \/ InitExec \/ InitCount

Next ==
    NextMem \/ NextParse \/ NextThink \/ NextSearch \/ NextRegistry
        \/ NextServe \/ NextIngest \/ NextExec \/ NextStats \/ NextCount

Spec == Init /\ [][Next]_vars

\* The parser on a text and the agent serving think calls.
SpecAgent == (InitParse \/ InitThink) /\ [][NextParse \/ NextThink]_vars

IsToolCall(c) ==
    /\ DOMAIN c = {"tool", "params"}
    /\ c.tool \in Seq(STRING)
    /\ \A k \in DOMAIN c.params : c.params[k] \in Seq(STRING)

\* C9: the parser returns a call or no call for every text, and no call
\* whenever the opening marker is absent; think's loop then stops at its
\* first iteration and executes no tool.
C9_NoMarkerNoCall ==
    /\ tool_call = None \/ IsToolCall(tool_call)
    /\ (pc # "text" /\ ~Contains(response, OpenMarker)) =>
          /\ tool_call = None
          /\ execs = 0
          /\ pc \notin {"call", "executing", "raised"}
          /\ iter <= 1

C9_Witness ==
    /\ pc = "returned"
    /\ ~Contains(response, OpenMarker)
    /\ max_iterations = 2
    /\ iter = 1
    /\ execs = 0
    /\ tool_call = None

\* C23: for every text that holds the opening marker the parser returns a
\* call, never no call, whatever the markers enclose and in whatever order
\* they stand; think dispatches that call in each iteration that remains,
\* so its loop ends only when the iterations are used up; and a think call
\* with one iteration or more executes a tool exactly when its query holds
\* the marker.
C23_MarkerAlwaysDispatched ==
    /\ (pc = "parsed" /\ Contains(response, OpenMarker)) =>
          IsToolCall(tool_call)
    /\ pc \in {"call", "executing"} =>
          (IsToolCall(tool_call) /\ Contains(response, OpenMarker))
    /\ (pc = "finish" /\ Contains(response, OpenMarker)) =>
          (iter = max_iterations /\ execs = iter)
    /\ (CallEnded /\ max_iterations >= 1) =>
          (execs >= 1 <=> Contains(query, OpenMarker))

=============================================================================
